---- MODULE Spec2Model ----
(***************************************************************************)
(* Model of the Pelican plugin similar_articles_light                      *)
(* (src/pelican/plugins/similar_articles_light/similar_articles.py).       *)
(*                                                                         *)
(* Numbers.  The program computes with binary floating point; the model    *)
(* computes in fixed point.  An idf is an integer number of hundredths     *)
(* (log10(3) = 0.4771 is 48), a dot product an integer number of           *)
(* ten-thousandths, and a cosine an integer number of 1/ScoreScale, the    *)
(* quotient being rounded down.  Articles are the positions 1..n of the    *)
(* corpus list; an attribute set on an article object is an entry of a     *)
(* function whose DOMAIN is the set of articles that carry the attribute.  *)
(***************************************************************************)
EXTENDS Integers, Sequences, FiniteSets, TLC

\* Largest corpus explored.
MaxDocs == 3
\* Largest explicit SIMILAR_ARTICLES_MAX_COUNT explored (1..MaxCount).
MaxCount == 1
\* Number of direct calls of the memoized functions explored (SpecDirect).
MaxCalls == 2
\* Longest vector handed to a direct call (SpecDirect).
MaxLen == 2
\* Fixed-point unit of a cosine: a score s stands for s / ScoreScale.
ScoreScale == 10000
\* settings.get("SIMILAR_ARTICLES_MAX_COUNT", 2)
DefaultMaxCount == 2

\* Tag names of the corpus, and the order in which the generator's tag
\* index lists them.
TagOrder == <<"t1", "t2">>
Tags == {TagOrder[i] : i \in 1..Len(TagOrder)}

KeyMaxCount == "SIMILAR_ARTICLES_MAX_COUNT"
KeyMinScore == "SIMILAR_ARTICLES_MIN_SCORE"

VARIABLES
    articles,           \* article_generator.articles: per article, its metadata tag names
    gen_tags,           \* article_generator.tags: sequence of [name, articles]
    settings,           \* article_generator.settings: the keys present
    pc,                 \* position in add_similar_articles
    error,              \* the exception that ended the call and the line that raised it
    global_idf,         \* OrderedDict tag name -> idf, as a sequence of [tag, idf]
    tfidf,              \* article.tfidf, for the articles that have the attribute
    similarity_matrix,  \* defaultdict(Counter): sequence of [key, row], row a sequence of [article, score]
    similar_articles,   \* article.similar_articles, for the articles that have the attribute
    dot_cache,          \* lru_cache of dot_product
    cos_cache,          \* lru_cache of compute_cosine
    run,                \* number of the build in progress
    first_result,       \* similar_articles as the first build left them
    calls,              \* number of direct calls made (SpecDirect)
    last_call           \* arguments and outcome of the last direct call (SpecDirect)

vars == <<articles, gen_tags, settings, pc, error, global_idf, tfidf,
          similarity_matrix, similar_articles, dot_cache, cos_cache, run,
          first_result, calls, last_call>>

inputs == <<articles, gen_tags, settings>>
direct == <<calls, last_call>>

----------------------------------------------------------------------------
(* Helpers *)

EmptyFun == [x \in {} |-> 0]

Min(a, b) == IF a < b THEN a ELSE b

RECURSIVE SumTo(_, _)
\* sum(f(1), ..., f(n)) for a sequence f
SumTo(f, n) == IF n = 0 THEN 0 ELSE SumTo(f, n - 1) + f[n]

NumArticles == Len(articles)
Articles == 1..NumArticles

\* A setting's value: a number, or a string that is not a number.
Number(v) == [is_number |-> TRUE, val |-> v]
NotANumber == [is_number |-> FALSE, val |-> 0]

NoError == [type |-> "none", line |-> 0]
Raised(type, line) == [type |-> type, line |-> line]

\* dict.get(key, default)
Get(d, key, default) == IF key \in DOMAIN d THEN d[key] ELSE default

\* 0.0001 in units of 1 / ScoreScale
DefaultMinScore == ScoreScale \div 10000

----------------------------------------------------------------------------
(* math.log10 and the corpus idf, lines 92-100 *)

\* round(100 * log10(n / f)) for 1 <= f <= n <= 5
Log10Hundredths(n, f) ==
    CASE n = f -> 0
      [] n = 2 /\ f = 1 -> 30
      [] n = 3 /\ f = 1 -> 48
      [] n = 3 /\ f = 2 -> 18
      [] n = 4 /\ f = 1 -> 60
      [] n = 4 /\ f = 2 -> 30
      [] n = 4 /\ f = 3 -> 12
      [] n = 5 /\ f = 1 -> 70
      [] n = 5 /\ f = 2 -> 40
      [] n = 5 /\ f = 3 -> 22
      [] n = 5 /\ f = 4 -> 10

\* tags = {tag.name: len(articles) for tag, articles in article_generator.tags.items()}
TagFreq(i) == Cardinality(gen_tags[i].articles)

\* len(article_generator.articles) / freq raises ZeroDivisionError when freq = 0
IdfRaises == \E i \in 1..Len(gen_tags) : TagFreq(i) = 0

ComputeGlobalIdf ==
    [i \in 1..Len(gen_tags) |->
        [tag |-> gen_tags[i].name,
         idf |-> Log10Hundredths(NumArticles, TagFreq(i))]]

----------------------------------------------------------------------------
(* add_tfidf_to_articles, lines 138-151 *)

\* Variant: an absent tag weighs -idf instead of 0
TfSigned(idf, present) == IF present THEN idf * 1 ELSE 0 - idf

\* idf * 1 if tag_name in article_tags else 0
TfBinarization(idf, present) == IF present THEN idf * 1 ELSE 0

TfidfVector(article_tags, gidf) ==
    [i \in 1..Len(gidf) |-> TfBinarization(gidf[i].idf, gidf[i].tag \in article_tags)]

AddTfidfToArticles(arts, gidf) ==
    [a \in 1..Len(arts) |-> TfidfVector(arts[a], gidf)]

----------------------------------------------------------------------------
(* dot_product and compute_cosine, lines 178-193 *)

\* sum(map(op.mul, vector_1, vector_2)): map stops at the end of the shorter
\* of its two arguments
dot_product(vector_1, vector_2) ==
    SumTo([i \in 1..Min(Len(vector_1), Len(vector_2)) |-> vector_1[i] * vector_2[i]],
          Min(Len(vector_1), Len(vector_2)))

\* @lru_cache(maxsize=None) of dot_product: the value and the cache after the call
DotCall(dc, u, v) ==
    IF <<u, v>> \in DOMAIN dc
    THEN [val |-> dc[<<u, v>>], dot |-> dc]
    ELSE LET r == dot_product(u, v)
         IN [val |-> r, dot |-> dc @@ (<<u, v>> :> r)]

RECURSIVE SqrtBetween(_, _, _)
\* the largest r in lo..hi with r * r <= n (lo * lo <= n < (hi + 1) * (hi + 1))
SqrtBetween(n, lo, hi) ==
    IF lo = hi THEN lo
    ELSE LET mid == (lo + hi + 1) \div 2
         IN IF mid * mid <= n THEN SqrtBetween(n, mid, hi)
                              ELSE SqrtBetween(n, lo, mid - 1)

\* n ** 0.5, rounded down
Sqrt(n) == SqrtBetween(n, 0, Min(n, 46340))

Returned(v) == [raised |-> FALSE, val |-> v]
ZeroDivision == [raised |-> TRUE, val |-> 0]

\* a / b in units of 1 / ScoreScale: ZeroDivisionError when b = 0
Divide(a, b) == IF b = 0 THEN ZeroDivision ELSE Returned((a * ScoreScale) \div b)

\* Variant: only the norm of the first vector is tested for 0
CosineValueOneGuard(norm_current, prod, norm_adverse) ==
    IF norm_current = 0
    THEN Returned(0)
    ELSE Divide(prod, Sqrt(norm_current * norm_adverse))

\* Variant: the product is divided by the norm of the first vector alone
CosineValueByCurrent(norm_current, prod, norm_adverse) ==
    IF Min(norm_current, norm_adverse) = 0
    THEN Returned(0)
    ELSE Divide(prod, norm_current)

\* lines 191-193
CosineValue(norm_current, prod, norm_adverse) ==
    IF Min(norm_current, norm_adverse) = 0
    THEN Returned(0)
    ELSE Divide(prod, Sqrt(norm_current * norm_adverse))

\* the body of compute_cosine, lines 187-193, with the dot_product cache
CosineBody(dc, tfidf_current, tfidf_adverse) ==
    LET norm_current == DotCall(dc, tfidf_current, tfidf_current)
        prod == DotCall(norm_current.dot, tfidf_current, tfidf_adverse)
        norm_adverse == DotCall(prod.dot, tfidf_adverse, tfidf_adverse)
    IN [res |-> CosineValue(norm_current.val, prod.val, norm_adverse.val),
        dot |-> norm_adverse.dot]

\* @lru_cache(maxsize=None) of compute_cosine: a call that raises caches nothing
compute_cosine(caches, u, v) ==
    IF <<u, v>> \in DOMAIN caches.cos
    THEN [res |-> Returned(caches.cos[<<u, v>>]), caches |-> caches]
    ELSE LET b == CosineBody(caches.dot, u, v)
         IN [res |-> b.res,
             caches |-> [dot |-> b.dot,
                         cos |-> IF b.res.raised THEN caches.cos
                                 ELSE caches.cos @@ (<<u, v>> :> b.res.val)]]

----------------------------------------------------------------------------
(* build_similarity_matrix, lines 154-175 *)

RECURSIVE PairsFrom(_, _, _)
\* the pairs <<i, j>>, i < j <= n, from <<i, j>> on, in lexicographic order
PairsFrom(i, j, n) ==
    IF i >= n THEN <<>>
    ELSE IF j > n THEN PairsFrom(i + 1, i + 2, n)
    ELSE <<(<<i, j>>)>> \o PairsFrom(i, j + 1, n)

RECURSIVE PairsWithSelfFrom(_, _, _)
PairsWithSelfFrom(i, j, n) ==
    IF i > n THEN <<>>
    ELSE IF j > n THEN PairsWithSelfFrom(i + 1, i + 1, n)
    ELSE <<(<<i, j>>)>> \o PairsWithSelfFrom(i, j + 1, n)

\* Variant: it.combinations_with_replacement(articles, 2)
CombinationsWithSelf(n) == PairsWithSelfFrom(1, 1, n)

\* it.combinations(articles, 2)
Combinations(n) == PairsFrom(1, 2, n)

\* index of `key` in a sequence of records with field `field`, 0 when absent
IndexOf(seq, field, key) ==
    IF \E i \in 1..Len(seq) : seq[i][field] = key
    THEN CHOOSE i \in 1..Len(seq) : seq[i][field] = key
    ELSE 0

\* counter[article] = score: a new key goes to the end, an old key keeps its place
CounterSet(row, article, score) ==
    LET i == IndexOf(row, "article", article)
    IN IF i = 0 THEN Append(row, [article |-> article, score |-> score])
       ELSE [row EXCEPT ![i].score = score]

\* similarity_matrix[key][article] = score on a defaultdict(Counter)
MatrixSet(matrix, key, article, score) ==
    LET m == IF IndexOf(matrix, "key", key) = 0
             THEN Append(matrix, [key |-> key, row |-> <<>>])
             ELSE matrix
        i == IndexOf(m, "key", key)
    IN [m EXCEPT ![i].row = CounterSet(m[i].row, article, score)]

\* Variant: line 174 is missing
RecordPairOneWay(matrix, article_current, article_adverse, cosine) ==
    MatrixSet(matrix, article_current, article_adverse, cosine)

\* lines 173-174
RecordPair(matrix, article_current, article_adverse, cosine) ==
    MatrixSet(MatrixSet(matrix, article_current, article_adverse, cosine),
              article_adverse, article_current, cosine)

\* lines 168-171: the arguments of compute_cosine, ordered by id()
OrderedArgs(ids, vectors, article_current, article_adverse) ==
    IF ids[article_current] < ids[article_adverse]
    THEN <<vectors[article_current], vectors[article_adverse]>>
    ELSE <<vectors[article_adverse], vectors[article_current]>>

\* one iteration of the loop of line 163 on the state st = [matrix, caches, raised]
MatrixStep(st, ids, vectors, pair) ==
    LET args == OrderedArgs(ids, vectors, pair[1], pair[2])
        c == compute_cosine(st.caches, args[1], args[2])
    IN IF c.res.raised
       THEN [st EXCEPT !.caches = c.caches, !.raised = TRUE]
       ELSE [matrix |-> RecordPair(st.matrix, pair[1], pair[2], c.res.val),
             caches |-> c.caches,
             raised |-> FALSE]

RECURSIVE MatrixLoop(_, _, _, _, _)
MatrixLoop(st, ids, vectors, pairs, k) ==
    IF k > Len(pairs) \/ st.raised THEN st
    ELSE MatrixLoop(MatrixStep(st, ids, vectors, pairs[k]), ids, vectors, pairs, k + 1)

build_similarity_matrix(ids, vectors, caches) ==
    MatrixLoop([matrix |-> <<>>, caches |-> caches, raised |-> FALSE],
               ids, vectors, Combinations(Len(vectors)), 1)

\* the orders id() can give the n article objects of a build
IdAssignments(n) == {f \in [1..n -> 1..n] : \A i, j \in 1..n : i # j => f[i] # f[j]}

----------------------------------------------------------------------------
(* Counter.most_common and the selection loop, lines 109-130 *)

RECURSIVE InsertDesc(_, _)
\* `entry` put into the descending sequence `sorted` behind every entry whose
\* score is at least its own: entries of equal score keep their order
InsertDesc(sorted, entry) ==
    IF sorted = <<>> THEN <<entry>>
    ELSE IF Head(sorted).score >= entry.score
         THEN <<Head(sorted)>> \o InsertDesc(Tail(sorted), entry)
         ELSE <<entry>> \o sorted

RECURSIVE SortedDesc(_, _)
\* sorted(row.items(), key=itemgetter(1), reverse=True), a stable sort, of the
\* first k entries of row
SortedDesc(row, k) ==
    IF k = 0 THEN <<>> ELSE InsertDesc(SortedDesc(row, k - 1), row[k])

\* Variant: every entry, sorted, whatever n
MostCommonUntruncated(row, n) == SortedDesc(row, Len(row))

\* Variant: the first n entries in insertion order
MostCommonUnsorted(row, n) ==
    IF n <= 0 THEN <<>> ELSE SubSeq(row, 1, Min(n, Len(row)))

\* Counter.most_common(n) for an integer n: the n entries of highest score,
\* highest first, none when n <= 0
most_common(row, n) ==
    IF n <= 0 THEN <<>>
    ELSE SubSeq(SortedDesc(row, Len(row)), 1, Min(n, Len(row)))

\* the generator of lines 111-115 for a numeric min_score
most_similar(candidates, min_score) ==
    LET kept == SelectSeq(candidates, LAMBDA e : e.score > min_score)
    IN [i \in 1..Len(kept) |-> kept[i].article]

\* most_common(max_count) raises TypeError unless max_count is an integer; the
\* comparison score > min_score raises TypeError unless min_score is a number,
\* and is evaluated once most_common returns an entry
SelectionRaises(row, max_count, min_score) ==
    \/ ~max_count.is_number
    \/ /\ ~min_score.is_number
       /\ most_common(row, max_count.val) # <<>>

\* Variant: the attribute is set whatever the tuple
AssignSimilarAlways(attrs, article, selected) == attrs @@ (article :> selected)

\* lines 127-130: the attribute is set when the tuple is not empty
AssignSimilar(attrs, article, selected) ==
    IF selected # <<>> THEN attrs @@ (article :> selected) ELSE attrs

\* one iteration of the loop of line 109 on the state st = [attrs, raised]
SelectionStep(st, entry, max_count, min_score) ==
    IF SelectionRaises(entry.row, max_count, min_score)
    THEN [st EXCEPT !.raised = TRUE]
    ELSE [st EXCEPT !.attrs =
            AssignSimilar(st.attrs, entry.key,
                most_similar(most_common(entry.row, max_count.val), min_score.val))]

RECURSIVE SelectionLoop(_, _, _, _, _)
SelectionLoop(st, matrix, max_count, min_score, k) ==
    IF k > Len(matrix) \/ st.raised THEN st
    ELSE SelectionLoop(SelectionStep(st, matrix[k], max_count, min_score),
                       matrix, max_count, min_score, k + 1)

----------------------------------------------------------------------------
(* The inputs of a build *)

\* article_generator.tags: for each listed tag, in the index's order, the
\* articles that carry it
TagIndex(arts, listed) ==
    LET names == SelectSeq(TagOrder, LAMBDA t : t \in listed)
    IN [i \in 1..Len(names) |->
          [name |-> names[i],
           articles |-> {a \in 1..Len(arts) : names[i] \in arts[a]}]]

Carried(arts) == UNION {arts[a] : a \in 1..Len(arts)}

Corpora == UNION {[1..n -> SUBSET Tags] : n \in 0..MaxDocs}

\* The values explored for the two settings; either key may also be absent.
MaxCountValues == {Number(n) : n \in 1..MaxCount} \cup {NotANumber}
MinScoreValues == {Number(ScoreScale \div 2), NotANumber}

SettingsValues ==
    {s \in UNION {[K -> MaxCountValues \cup MinScoreValues] :
                    K \in SUBSET {KeyMaxCount, KeyMinScore}} :
        /\ KeyMaxCount \in DOMAIN s => s[KeyMaxCount] \in MaxCountValues
        /\ KeyMinScore \in DOMAIN s => s[KeyMinScore] \in MinScoreValues}

\* lines 81-82
max_count == Get(settings, KeyMaxCount, Number(DefaultMaxCount))
min_score == Get(settings, KeyMinScore, Number(DefaultMinScore))

----------------------------------------------------------------------------
(* add_similar_articles, lines 38-135, as the steps of one call *)

InitBuild ==
    /\ pc = "start"
    /\ error = NoError
    /\ global_idf = <<>>
    /\ tfidf = EmptyFun
    /\ similarity_matrix = <<>>
    /\ similar_articles = EmptyFun

Init ==
    /\ articles \in Corpora
    /\ \E listed \in SUBSET Tags :
          /\ Carried(articles) \subseteq listed
          /\ gen_tags = TagIndex(articles, listed)
    /\ settings \in SettingsValues
    /\ InitBuild
    /\ dot_cache = EmptyFun
    /\ cos_cache = EmptyFun
    /\ run = 1
    /\ first_result = EmptyFun
    /\ calls = 0
    /\ last_call = [fn |-> "", u |-> <<>>, v |-> <<>>, res |-> Returned(0)]

\* lines 92-100: the corpus idf, or ZeroDivisionError for a tag without articles
GlobalIdf ==
    /\ pc = "start"
    /\ IF IdfRaises
       THEN /\ pc' = "failed"
            /\ error' = Raised("ZeroDivisionError", 97)
            /\ UNCHANGED global_idf
       ELSE /\ pc' = "idf"
            /\ global_idf' = ComputeGlobalIdf
            /\ UNCHANGED error
    /\ UNCHANGED <<inputs, tfidf, similarity_matrix, similar_articles,
                   dot_cache, cos_cache, run, first_result, direct>>

\* line 103
AddTfidf ==
    /\ pc = "idf"
    /\ pc' = "tfidf"
    /\ tfidf' = AddTfidfToArticles(articles, global_idf)
    /\ UNCHANGED <<inputs, error, global_idf, similarity_matrix, similar_articles,
                   dot_cache, cos_cache, run, first_result, direct>>

\* line 106, the article objects lying in memory in any order
BuildMatrix ==
    /\ pc = "tfidf"
    /\ \E ids \in IdAssignments(NumArticles) :
          \E st \in {build_similarity_matrix(ids, tfidf,
                        [dot |-> dot_cache, cos |-> cos_cache])} :
             /\ dot_cache' = st.caches.dot
             /\ cos_cache' = st.caches.cos
             /\ IF st.raised
                THEN /\ pc' = "failed"
                     /\ error' = Raised("ZeroDivisionError", 193)
                     /\ UNCHANGED similarity_matrix
                ELSE /\ pc' = "matrix"
                     /\ similarity_matrix' = st.matrix
                     /\ UNCHANGED error
    /\ UNCHANGED <<inputs, global_idf, tfidf, similar_articles, run,
                   first_result, direct>>

\* lines 109-130
Select ==
    /\ pc = "matrix"
    /\ \E st \in {SelectionLoop([attrs |-> similar_articles, raised |-> FALSE],
                                  similarity_matrix, max_count, min_score, 1)} :
          /\ similar_articles' = st.attrs
          /\ IF st.raised
             THEN /\ pc' = "failed"
                  /\ error' = Raised("TypeError", IF max_count.is_number THEN 114 ELSE 113)
             ELSE /\ pc' = "done"
                  /\ UNCHANGED error
    /\ UNCHANGED <<inputs, global_idf, tfidf, similarity_matrix, dot_cache,
                   cos_cache, run, first_result, direct>>

\* The next build of the same process (pelican --autoreload): the same
\* content is read again into new article objects, and the module's caches
\* are what the build before left.
NextBuild ==
    /\ pc = "done"
    /\ run = 1
    /\ run' = 2
    /\ first_result' = similar_articles
    /\ pc' = "start"
    /\ error' = NoError
    /\ global_idf' = <<>>
    /\ tfidf' = EmptyFun
    /\ similarity_matrix' = <<>>
    /\ similar_articles' = EmptyFun
    /\ UNCHANGED <<inputs, dot_cache, cos_cache, direct>>

----------------------------------------------------------------------------
(* Direct calls of the two memoized functions on any two tuples *)

DirectValues == {0, 18, 48}
DirectVectors == UNION {[1..n -> DirectValues] : n \in 0..MaxLen}

InitDirect ==
    /\ articles = <<>>
    /\ gen_tags = <<>>
    /\ settings = EmptyFun
    /\ InitBuild
    /\ dot_cache = EmptyFun
    /\ cos_cache = EmptyFun
    /\ run = 1
    /\ first_result = EmptyFun
    /\ calls = 0
    /\ last_call = [fn |-> "", u |-> <<>>, v |-> <<>>, res |-> Returned(0)]

build == <<pc, error, global_idf, tfidf, similarity_matrix, similar_articles,
           run, first_result>>

DirectDotProduct ==
    /\ calls < MaxCalls
    /\ \E u \in DirectVectors, v \in DirectVectors :
          \E c \in {DotCall(dot_cache, u, v)} :
             /\ dot_cache' = c.dot
             /\ last_call' = [fn |-> "dot_product", u |-> u, v |-> v,
                              res |-> Returned(c.val)]
    /\ calls' = calls + 1
    /\ UNCHANGED <<inputs, build, cos_cache>>

DirectComputeCosine ==
    /\ calls < MaxCalls
    /\ \E u \in DirectVectors, v \in DirectVectors :
          \E c \in {compute_cosine([dot |-> dot_cache, cos |-> cos_cache], u, v)} :
             /\ dot_cache' = c.caches.dot
             /\ cos_cache' = c.caches.cos
             /\ last_call' = [fn |-> "compute_cosine", u |-> u, v |-> v, res |-> c.res]
    /\ calls' = calls + 1
    /\ UNCHANGED <<inputs, build>>

----------------------------------------------------------------------------
(* Specifications *)

\* one build
Next == GlobalIdf \/ AddTfidf \/ BuildMatrix \/ Select

Spec == Init /\ [][Next]_vars

\* two builds of the same corpus in one process
NextTwice == GlobalIdf \/ AddTfidf \/ BuildMatrix \/ Select \/ NextBuild

SpecTwice == Init /\ [][NextTwice]_vars

\* direct calls
NextDirect == DirectDotProduct \/ DirectComputeCosine

SpecDirect == InitDirect /\ [][NextDirect]_vars

----------------------------------------------------------------------------
(* Properties *)

\* the Counter of `article` in the similarity matrix, empty when it has none
RowOf(article) ==
    IF IndexOf(similarity_matrix, "key", article) = 0 THEN <<>>
    ELSE similarity_matrix[IndexOf(similarity_matrix, "key", article)].row

HasScore(a, b) == IndexOf(RowOf(a), "article", b) # 0
ScoreOf(a, b) == RowOf(a)[IndexOf(RowOf(a), "article", b)].score

\* build_similarity_matrix has returned
MatrixBuilt ==
    \/ pc \in {"matrix", "done"}
    \/ pc = "failed" /\ error.type = "TypeError"

AllZero(vector) == \A i \in 1..Len(vector) : vector[i] = 0

C2_Symmetric ==
    MatrixBuilt =>
        \A a \in Articles, b \in Articles :
            a # b => /\ HasScore(a, b)
                     /\ HasScore(b, a)
                     /\ ScoreOf(a, b) = ScoreOf(b, a)

\* a matrix is built for which compute_cosine received the later article's
\* vector first, and the score is not 0
C2_Witness ==
    /\ MatrixBuilt
    /\ \E a \in Articles, b \in Articles :
          /\ a < b
          /\ tfidf[a] # tfidf[b]
          /\ <<tfidf[b], tfidf[a]>> \in DOMAIN cos_cache
          /\ <<tfidf[a], tfidf[b]>> \notin DOMAIN cos_cache
          /\ ScoreOf(a, b) > 0

\* C3: no article is a key of its own row, and no article is in its own
\* similar_articles.
C3_NoSelf ==
    /\ \A k \in 1..Len(similarity_matrix) :
          \A i \in 1..Len(similarity_matrix[k].row) :
              similarity_matrix[k].row[i].article # similarity_matrix[k].key
    /\ \A a \in DOMAIN similar_articles :
          \A i \in 1..Len(similar_articles[a]) : similar_articles[a][i] # a

\* a build is done in which every article of a corpus of MaxDocs has a result
C3_Witness ==
    /\ pc = "done"
    /\ NumArticles = MaxDocs
    /\ DOMAIN similar_articles = Articles

\* C4: when a build is done, an article has the attribute similar_articles
\* exactly when max_count >= 1 and some article of its row has a score above
\* min_score; and the attribute is never an empty tuple.
C4_AttributeIffResult ==
    /\ pc = "done" =>
          \A a \in Articles :
              a \in DOMAIN similar_articles <=>
                  /\ max_count.val >= 1
                  /\ \E i \in 1..Len(RowOf(a)) :
                        min_score.is_number /\ RowOf(a)[i].score > min_score.val
    /\ \A a \in DOMAIN similar_articles : similar_articles[a] # <<>>

\* a build is done that gave one article the attribute and left a second
\* one, which has candidates, without it
C4_Witness ==
    /\ pc = "done"
    /\ \E a \in Articles, b \in Articles :
          /\ a \in DOMAIN similar_articles
          /\ b \notin DOMAIN similar_articles
          /\ RowOf(b) # <<>>

\* C5: an article whose vector is all zeros has score 0 with every other
\* article, and no division by zero happens in compute_cosine.
C5_ZeroVector ==
    /\ MatrixBuilt =>
          \A a \in Articles, b \in Articles :
              (a # b /\ AllZero(tfidf[a])) =>
                  /\ HasScore(a, b) /\ ScoreOf(a, b) = 0
                  /\ HasScore(b, a) /\ ScoreOf(b, a) = 0
    /\ error # Raised("ZeroDivisionError", 193)

\* a matrix is built over two all-zero articles and an article whose vector
\* is not all zeros
C5_Witness ==
    /\ MatrixBuilt
    /\ \E a \in Articles, b \in Articles, c \in Articles :
          /\ a # b
          /\ AllZero(tfidf[a])
          /\ AllZero(tfidf[b])
          /\ ~AllZero(tfidf[c])

\* C6: every score of the similarity matrix is between 0 and 1.
C6_Bounds ==
    \A k \in 1..Len(similarity_matrix) :
        \A i \in 1..Len(similarity_matrix[k].row) :
            /\ 0 <= similarity_matrix[k].row[i].score
            /\ similarity_matrix[k].row[i].score <= ScoreScale

\* a matrix holds a score strictly between 0 and 1
C6_Witness ==
    \E a \in Articles, b \in Articles :
        a # b /\ HasScore(a, b) /\ ScoreOf(a, b) > 0 /\ ScoreOf(a, b) < ScoreScale

\* C7 as stated: a direct call of dot_product or compute_cosine on two tuples
\* of different lengths raises.
C7_MismatchRaises ==
    (last_call.fn # "" /\ Len(last_call.u) # Len(last_call.v)) => last_call.res.raised

\* C8: the second build of the same corpus with the same settings ends as the
\* first did, with the same similar_articles on every article; and in a
\* result, of two consecutive entries of equal score the earlier in the
\* corpus comes first.
C8_Deterministic ==
    /\ run = 2 => pc # "failed"
    /\ (run = 2 /\ pc = "done") => similar_articles = first_result
    /\ \A a \in DOMAIN similar_articles :
          \A i \in 1..(Len(similar_articles[a]) - 1) :
              ScoreOf(a, similar_articles[a][i]) = ScoreOf(a, similar_articles[a][i + 1])
                  => similar_articles[a][i] < similar_articles[a][i + 1]

\* the second build is done, one of its results holds two entries of equal
\* score, and the two builds handed two different vectors to compute_cosine
\* in the two orders
C8_Witness ==
    /\ run = 2
    /\ pc = "done"
    /\ \E a \in DOMAIN similar_articles :
          /\ Len(similar_articles[a]) = 2
          /\ ScoreOf(a, similar_articles[a][1]) = ScoreOf(a, similar_articles[a][2])
    /\ \E a \in Articles, b \in Articles :
          /\ tfidf[a] # tfidf[b]
          /\ <<tfidf[a], tfidf[b]>> \in DOMAIN cos_cache
          /\ <<tfidf[b], tfidf[a]>> \in DOMAIN cos_cache

\* the selection of lines 111-115: the first n of the sorted row, then those
\* above the threshold
TruncateThenFilter(row, n, threshold) == most_similar(most_common(row, n), threshold)

\* the other order: the entries above the threshold, sorted, then the first n
FilterThenTruncate(row, n, threshold) ==
    LET above == SelectSeq(row, LAMBDA e : e.score > threshold)
        sorted == SortedDesc(above, Len(above))
    IN [i \in 1..Min(n, Len(sorted)) |-> sorted[i].article]

Thresholds == {0, DefaultMinScore, ScoreScale \div 4, ScoreScale \div 2, ScoreScale}

\* rows of at most MaxDocs entries over a few scores
RowScores == {0, ScoreScale \div 3, ScoreScale \div 2, ScoreScale}
RowsUpTo(n) ==
    UNION {{[i \in 1..k |-> [article |-> i, score |-> f[i]]] : f \in [1..k -> RowScores]} :
              k \in 0..n}

\* C9 as stated: once a matrix is built for MaxDocs articles, some row, of the matrix or not, some
\* max_count and some min_score give different results in the two orders of
\* filtering.
C9_OrderObservable ==
    (MatrixBuilt /\ NumArticles = MaxDocs) =>
        \E row \in RowsUpTo(MaxDocs) \cup {RowOf(a) : a \in Articles},
           n \in 0..(MaxDocs + 1), threshold \in Thresholds :
            TruncateThenFilter(row, n, threshold) # FilterThenTruncate(row, n, threshold)

\* C9 amended: for every row of a similarity matrix just built, every max_count and
\* every min_score the two orders of filtering give the same result, and the
\* result of a build is that result: an article has fewer than max_count
\* neighbours only when fewer than max_count of its candidates score above
\* min_score.
C9_OrderNotObservable ==
    /\ pc = "matrix" =>
          \A k \in 1..Len(similarity_matrix) :
              \A n \in 0..(MaxDocs + 1) :
                  \A threshold \in Thresholds \cup
                        {similarity_matrix[k].row[i].score :
                            i \in 1..Len(similarity_matrix[k].row)} :
                      TruncateThenFilter(similarity_matrix[k].row, n, threshold)
                          = FilterThenTruncate(similarity_matrix[k].row, n, threshold)
    /\ pc = "done" =>
          \A a \in DOMAIN similar_articles :
              similar_articles[a] = FilterThenTruncate(RowOf(a), max_count.val, min_score.val)

\* a build is done in which an article has fewer neighbours than max_count
\* though its row holds at least max_count candidates, one of them of score 0
C9_Witness ==
    /\ pc = "done"
    /\ \E a \in DOMAIN similar_articles :
          /\ Len(similar_articles[a]) < max_count.val
          /\ Len(RowOf(a)) >= max_count.val
          /\ \E i \in 1..Len(RowOf(a)) : RowOf(a)[i].score = 0

\* C10 as stated: when the call fails, no article has a tfidf vector or a
\* similar_articles attribute, and no score has been computed.
C10_FailsUpfront ==
    pc = "failed" =>
        /\ DOMAIN tfidf = {}
        /\ DOMAIN similar_articles = {}
        /\ similarity_matrix = <<>>
        /\ DOMAIN cos_cache = {}

====
